---- MODULE Spec2Model ----
(***************************************************************************)
(* Model of components/layout/list_item.rs: ListItemFlow (a block flow     *)
(* plus outside marker fragments) and ListStyleTypeContent.                *)
(*                                                                         *)
(* Lengths are integers standing for app units (Au).  A marker fragment is *)
(* a record                                                                *)
(*   list_style_type        marker.style().get_list().list_style_type      *)
(*   preferred_inline_size  result of compute_intrinsic_inline_sizes()     *)
(*   ascent                 ascent of aligned_inline_metrics()             *)
(*   start_i, start_b, size_inline   the written parts of border_box       *)
(* block_flow holds the parts of BlockFlow / BaseFlow that ListItemFlow    *)
(* reads or writes.  assign_block_size is modelled call by call (the       *)
(* variable calls is the list of callees that have returned); no other     *)
(* operation can start while it is in progress (&mut self).                *)
(***************************************************************************)
EXTENDS Integers, Sequences, FiniteSets, TLC

VARIABLES
    block_flow,        \* self.block_flow (base, fragment)
    marker_fragments,  \* self.marker_fragments
    op,                \* the Flow operation entered last
    calls,             \* callees of that operation that have returned
    locals,            \* locals of assign_marker_inline_sizes, live until the next call
    display_list,      \* items pushed on the DisplayListBuildState by the last operation
    visited,           \* calls made on the iterator / mutator by the last operation
    content            \* ListStyleTypeContent values built so far

vars == <<block_flow, marker_fragments, op, calls, locals, display_list, visited, content>>

(***************************************************************************)
(* Bounds                                                                  *)
(***************************************************************************)
MaxMarkers == 2
MaxBlockItems == 1

\* Option::None of an Option<LogicalRect>, and dead locals.
NoRect == [some |-> FALSE]
NoLocals == [live |-> FALSE]

(***************************************************************************)
(* list-style-type                                                         *)
(***************************************************************************)
ListStyleType ==
    {"none", "disc", "circle", "square", "disclosure-open", "disclosure-closed",
     "decimal", "lower-alpha", "upper-alpha", "arabic-indic", "bengali",
     "cambodian", "cjk-decimal", "devanagari", "gujarati", "gurmukhi",
     "kannada", "khmer", "lao", "malayalam", "mongolian", "myanmar", "oriya",
     "persian", "telugu", "thai", "tibetan", "cjk-earthly-branch",
     "cjk-heavenly-stem", "lower-greek", "hiragana", "hiragana-iroha",
     "katakana", "katakana-iroha"}

\* generated_content::static_representation: the glyph of a keyword; it
\* panics for a keyword without a static representation.
static_representation(list_style_type) ==
    CASE list_style_type = "disc" -> "U+2022"
      [] list_style_type = "circle" -> "U+25E6"
      [] list_style_type = "square" -> "U+25AA"
      [] list_style_type = "disclosure-open" -> "U+25BE"
      [] list_style_type = "disclosure-closed" -> "U+2023"
      [] OTHER -> "panic"

\* A plausible slip: `none` handled by the static-text arm.
from_list_style_type_NoneStatic(list_style_type) ==
    IF list_style_type \in {"none", "disc", "circle", "square", "disclosure-open",
                            "disclosure-closed"}
    THEN [kind |-> "StaticText", arg |-> static_representation(list_style_type)]
    ELSE [kind |-> "GeneratedContent", arg |-> "ListItem"]

\* ListStyleTypeContent::from_list_style_type
from_list_style_type(list_style_type) ==
    CASE list_style_type = "none" -> [kind |-> "None", arg |-> "-"]
      [] list_style_type \in {"disc", "circle", "square", "disclosure-open",
                              "disclosure-closed"} ->
            [kind |-> "StaticText", arg |-> static_representation(list_style_type)]
      [] OTHER -> [kind |-> "GeneratedContent", arg |-> "ListItem"]

(***************************************************************************)
(* Construction                                                            *)
(***************************************************************************)
\* Fragment::new leaves border_box at zero.
Fragment(style, pref, asc) ==
    [list_style_type |-> style, preferred_inline_size |-> pref, ascent |-> asc,
     start_i |-> 0, start_b |-> 0, size_inline |-> 0]

\* BlockFlow::from_fragment_and_float_kind: nothing laid out yet.
from_fragment_and_float_kind(intrinsic, font_ascent) ==
    [restyle_damage |-> {},
     content_inline_size |-> intrinsic,  \* what the block's own content bubbles up
     font_ascent |-> font_ascent,        \* ascent of the block style's font
     intrinsic_inline_sizes |-> 0,       \* base.intrinsic_inline_sizes (preferred)
     block_container_inline_size |-> 0,  \* base.block_container_inline_size
     position_size_block |-> 0,          \* base.position.size.block
     floats |-> {},                      \* base.floats
     border_box_start_i |-> 0]           \* fragment.border_box.start.i

\* A plausible slip: the flag is raised when any marker needs generated content.
from_fragments_and_flotation_AnyMarker(main, markers) ==
    IF \E k \in 1..Len(markers) :
          markers[k].list_style_type \notin {"disc", "none", "circle", "square",
                                            "disclosure-open", "disclosure-closed"}
    THEN [main EXCEPT !.restyle_damage = @ \cup {"RESOLVE_GENERATED_CONTENT"}]
    ELSE main

\* ListItemFlow::from_fragments_and_flotation: the block_flow of the new flow.
from_fragments_and_flotation(main, markers) ==
    IF Len(markers) > 0
    THEN IF markers[1].list_style_type \in {"disc", "none", "circle", "square",
                                            "disclosure-open", "disclosure-closed"}
         THEN main
         ELSE [main EXCEPT !.restyle_damage = @ \cup {"RESOLVE_GENERATED_CONTENT"}]
    ELSE main

(***************************************************************************)
(* Collaborators of the layout pass                                        *)
(***************************************************************************)
\* A float is [kind, b, block, i, inline]: its side and its rectangle.
Max(S) == CHOOSE x \in S : \A y \in S : y <= x
Min(S) == CHOOSE x \in S : \A y \in S : x <= y

\* Floats::available_rect(block_start, block_size, max_x): None when no float
\* intersects the band, else the free inline range [start_i, start_i + size_inline].
available_rect(floats, block_start, block_size, max_x) ==
    LET hit == {f \in floats : /\ f.b + f.block > block_start
                               /\ f.b < block_start + block_size}
        max_inline_start == Max({0} \cup {f.i + f.inline : f \in {g \in hit : g.kind = "left"}})
        min_inline_end == Min({max_x} \cup {f.i : f \in {g \in hit : g.kind = "right"}})
    IN  IF hit = {} THEN NoRect
        ELSE [some |-> TRUE, start_i |-> max_inline_start,
              size_inline |-> min_inline_end - max_inline_start]

\* Fragment::compute_intrinsic_inline_sizes().content_intrinsic_sizes.preferred_inline_size
compute_intrinsic_inline_sizes(marker) == marker.preferred_inline_size

\* InlineFlow::minimum_line_metrics_for_fragments: the line box that holds the
\* block style's font and every fragment.
minimum_line_metrics_for_fragments(fragments, font_ascent) ==
    [space_above_baseline |->
        Max({font_ascent} \cup {fragments[k].ascent : k \in 1..Len(fragments)})]

\* Fragment::aligned_inline_metrics: the marker's own metrics on that line.
aligned_inline_metrics(marker, line_metrics) == [ascent |-> marker.ascent]

\* BlockFlow::bubble_inline_sizes: the intrinsic size of the block's own content.
block_flow_bubble_inline_sizes(bf) ==
    [bf EXCEPT !.intrinsic_inline_sizes = bf.content_inline_size]

(***************************************************************************)
(* ListItemFlow::assign_marker_inline_sizes                                *)
(***************************************************************************)
\* A plausible slip: the band passed as (start, end) of [-size, +size].
float_band_Doubled(base) ==
    << 0 - base.position_size_block,
       2 * base.position_size_block,
       base.block_container_inline_size >>

\* The arguments of base.floats.available_rect(..).
float_band(base) ==
    << 0 - base.position_size_block,
       base.position_size_block,
       base.block_container_inline_size >>

\* available_rect.unwrap_or(self.block_flow.fragment.border_box).start.i
initial_marker_inline_start(rect, bf) ==
    IF rect.some THEN rect.start_i ELSE bf.border_box_start_i

RECURSIVE place_markers_Forward(_, _, _)
\* A plausible slip: iter_mut() without rev().
place_markers_Forward(markers, k, marker_inline_start) ==
    IF k = 0 THEN [markers |-> markers, marker_inline_start |-> marker_inline_start]
    ELSE LET n == Len(markers) + 1 - k
             size == compute_intrinsic_inline_sizes(markers[n])
             next == marker_inline_start - size
         IN  place_markers_Forward(
                 [markers EXCEPT ![n].size_inline = size, ![n].start_i = next],
                 k - 1, next)

RECURSIVE place_markers_StartBeforeStep(_, _, _)
\* A plausible slip: start.i written before the cursor is moved.
place_markers_StartBeforeStep(markers, k, marker_inline_start) ==
    IF k = 0 THEN [markers |-> markers, marker_inline_start |-> marker_inline_start]
    ELSE LET size == compute_intrinsic_inline_sizes(markers[k])
             next == marker_inline_start - size
         IN  place_markers_StartBeforeStep(
                 [markers EXCEPT ![k].size_inline = size, ![k].start_i = marker_inline_start],
                 k - 1, next)

RECURSIVE place_markers(_, _, _)
\* The loop `for marker in self.marker_fragments.iter_mut().rev()`; k is the
\* stored index of the marker to process next (0: done).
place_markers(markers, k, marker_inline_start) ==
    IF k = 0 THEN [markers |-> markers, marker_inline_start |-> marker_inline_start]
    ELSE LET size == compute_intrinsic_inline_sizes(markers[k])
             next == marker_inline_start - size
         IN  place_markers(
                 [markers EXCEPT ![k].size_inline = size, ![k].start_i = next],
                 k - 1, next)

\* The whole function: the new markers and the values of its locals.
assign_marker_inline_sizes(bf, markers) ==
    LET query == float_band(bf)
        rect == available_rect(bf.floats, query[1], query[2], query[3])
        placed == place_markers(markers, Len(markers), initial_marker_inline_start(rect, bf))
    IN  [markers |-> placed.markers,
         locals |-> [live |-> TRUE, query |-> query, available_rect |-> rect,
                     marker_inline_start |-> placed.marker_inline_start]]

(***************************************************************************)
(* ListItemFlow::assign_marker_block_sizes                                 *)
(***************************************************************************)
\* A plausible slip: the marker's own ascent is not subtracted.
assign_marker_block_sizes_NoAscent(bf, markers) ==
    LET marker_line_metrics == minimum_line_metrics_for_fragments(markers, bf.font_ascent)
    IN  [k \in 1..Len(markers) |->
            [markers[k] EXCEPT !.start_b = marker_line_metrics.space_above_baseline]]

assign_marker_block_sizes(bf, markers) ==
    LET marker_line_metrics == minimum_line_metrics_for_fragments(markers, bf.font_ascent)
    IN  [k \in 1..Len(markers) |->
            [markers[k] EXCEPT !.start_b =
                marker_line_metrics.space_above_baseline
                    - aligned_inline_metrics(markers[k], marker_line_metrics).ascent]]

(***************************************************************************)
(* impl Flow for ListItemFlow                                              *)
(***************************************************************************)
RECURSIVE SumPreferred(_, _)
SumPreferred(markers, k) ==
    IF k > Len(markers) THEN 0
    ELSE compute_intrinsic_inline_sizes(markers[k]) + SumPreferred(markers, k + 1)

\* A plausible slip: the markers widen the flow.
bubble_inline_sizes_WithMarkers(bf, markers) ==
    [bf EXCEPT !.intrinsic_inline_sizes = bf.content_inline_size + SumPreferred(markers, 1)]

\* ListItemFlow::bubble_inline_sizes: the new block_flow.
bubble_inline_sizes(bf, markers) == block_flow_bubble_inline_sizes(bf)

\* A plausible slip: the markers are positioned before the block is sized.
assign_block_size_MarkersFirst ==
    <<"assign_marker_inline_sizes", "block_flow.assign_block_size", "assign_marker_block_sizes">>

\* ListItemFlow::assign_block_size: its calls, in program order.
assign_block_size ==
    <<"block_flow.assign_block_size", "assign_marker_inline_sizes", "assign_marker_block_sizes">>

\* Fragment::build_display_list for the marker at stored index k.
fragment_build_display_list(k) == << <<"marker", k>> >>

\* BlockFlow::build_display_list_for_block, for a block that paints n items.
build_display_list_for_block(n) == [k \in 1..n |-> <<"block", k>>]

RECURSIVE paint_markers(_, _)
\* The loop `for marker in &mut self.marker_fragments` of build_display_list.
paint_markers(markers, k) ==
    IF k > Len(markers) THEN << >>
    ELSE fragment_build_display_list(k) \o paint_markers(markers, k + 1)

\* A plausible slip: the block is painted before the markers.
build_display_list_BlockFirst(markers, n) ==
    build_display_list_for_block(n) \o paint_markers(markers, 1)

\* ListItemFlow::build_display_list: the items pushed on the state.
build_display_list(markers, n) ==
    paint_markers(markers, 1) \o build_display_list_for_block(n)

\* The calls one fragment receives from a FragmentBorderBoxIterator whose
\* should_process accepts exactly the fragments in accept.
process_if_accepted(fragment, accept) ==
    << [call |-> "should_process", fragment |-> fragment, result |-> fragment \in accept] >>
        \o (IF fragment \in accept
            THEN << [call |-> "process", fragment |-> fragment, result |-> TRUE] >>
            ELSE << >>)

\* BlockFlow::iterate_through_fragment_border_boxes: the block's own fragment.
block_flow_iterate_through_fragment_border_boxes(accept) ==
    process_if_accepted(<<"block", 0>>, accept)

RECURSIVE iterate_markers(_, _, _)
\* The loop `for marker in &self.marker_fragments` with its should_process test.
iterate_markers(markers, k, accept) ==
    IF k > Len(markers) THEN << >>
    ELSE process_if_accepted(<<"marker", k>>, accept) \o iterate_markers(markers, k + 1, accept)

\* A plausible slip: the last marker is left out of the iteration.
iterate_through_fragment_border_boxes_SkipLast(markers, accept) ==
    block_flow_iterate_through_fragment_border_boxes(accept)
        \o iterate_markers(SubSeq(markers, 1, Len(markers) - 1), 1, accept)

\* ListItemFlow::iterate_through_fragment_border_boxes: the calls on the iterator.
iterate_through_fragment_border_boxes(markers, accept) ==
    block_flow_iterate_through_fragment_border_boxes(accept)
        \o iterate_markers(markers, 1, accept)

\* BlockFlow::mutate_fragments: the block's own fragment.
block_flow_mutate_fragments ==
    << [call |-> "mutator", fragment |-> <<"block", 0>>, result |-> TRUE] >>

\* ListItemFlow::mutate_fragments: the calls of the mutator.
mutate_fragments(markers) ==
    block_flow_mutate_fragments
        \o [k \in 1..Len(markers) |-> [call |-> "mutator", fragment |-> <<"marker", k>>, result |-> TRUE]]

(***************************************************************************)
(* Inputs                                                                  *)
(***************************************************************************)
PreferredSizes == {1, 2}
Ascents == {1, 3}
LayoutStyles == {"decimal"}
LaterStyles == {"disc", "decimal"}

\* Results of the block's own block-size assignment: base.position.size.block,
\* and the floats left in base.floats (block coordinates relative to the end
\* of the flow, as the query of assign_marker_inline_sizes takes them).
BlockSizes == {1, 2}
FloatConfigs ==
    { {},
      \* a left and a right float beside the last line of the flow
      {[kind |-> "left", b |-> -1, block |-> 1, i |-> 0, inline |-> 3],
       [kind |-> "right", b |-> -1, block |-> 1, i |-> 7, inline |-> 3]},
      \* a left float that starts where the flow ends
      {[kind |-> "left", b |-> 0, block |-> 1, i |-> 0, inline |-> 4]},
      \* a left float beside the first line of a flow of two lines
      {[kind |-> "left", b |-> -2, block |-> 1, i |-> 0, inline |-> 5]} }

\* Results of the block's inline-size assignment.
ContainerCases ==
    { [block_container_inline_size |-> 8, border_box_start_i |-> 1],
      [block_container_inline_size |-> 10, border_box_start_i |-> 2] }

\* Operations that only delegate to block_flow and touch nothing modelled here.
DelegatedOps == {"compute_stacking_relative_position", "repair_style"}

MarkerLists(firstStyles, laterStyles, prefs, ascents) ==
    UNION { { m \in [1..n -> {Fragment(s, p, a) :
                                s \in firstStyles \cup laterStyles, p \in prefs, a \in ascents}] :
                /\ n > 0 => m[1].list_style_type \in firstStyles
                /\ \A k \in 2..n : m[k].list_style_type \in laterStyles }
            : n \in 0..MaxMarkers }

(***************************************************************************)
(* Initial states: a flow just built by from_fragments_and_flotation       *)
(***************************************************************************)
InitWith(markers) ==
    /\ marker_fragments \in markers
    /\ block_flow = from_fragments_and_flotation(from_fragment_and_float_kind(4, 2),
                                                 marker_fragments)
    /\ op = "from_fragments_and_flotation"
    /\ calls = << >>
    /\ locals = NoLocals
    /\ display_list = << >>
    /\ visited = << >>
    /\ content = << >>

Init == InitWith(MarkerLists(LayoutStyles, LayoutStyles, PreferredSizes, Ascents))

InitStyle == InitWith(MarkerLists(ListStyleType, LaterStyles, {1}, {1}))

InitClassify == InitWith(MarkerLists(ListStyleType, ListStyleType, {1}, {1}))

(***************************************************************************)
(* Actions                                                                 *)
(***************************************************************************)
InProgress == op = "assign_block_size" /\ Len(calls) < Len(assign_block_size)
Idle == ~InProgress

\* Entering a Flow operation other than assign_block_size.
Enter(name) ==
    /\ Idle
    /\ op' = name
    /\ calls' = << >>
    /\ locals' = NoLocals

\* The next call of assign_block_size is callee (which starts the operation
\* when the flow is idle).
Call(callee) ==
    /\ \/ Idle /\ assign_block_size[1] = callee /\ calls' = <<callee>>
       \/ InProgress /\ assign_block_size[Len(calls) + 1] = callee
                     /\ calls' = Append(calls, callee)
    /\ op' = "assign_block_size"
    /\ display_list' = << >>
    /\ visited' = << >>
    /\ UNCHANGED content

BubbleInlineSizes ==
    /\ Enter("bubble_inline_sizes")
    /\ block_flow' = bubble_inline_sizes(block_flow, marker_fragments)
    /\ display_list' = << >>
    /\ visited' = << >>
    /\ UNCHANGED <<marker_fragments, content>>

AssignInlineSizes ==
    /\ Enter("assign_inline_sizes")
    /\ \E c \in ContainerCases :
          block_flow' = [block_flow EXCEPT
                            !.block_container_inline_size = c.block_container_inline_size,
                            !.border_box_start_i = c.border_box_start_i]
    /\ display_list' = << >>
    /\ visited' = << >>
    /\ UNCHANGED <<marker_fragments, content>>

BlockFlowAssignBlockSize ==
    /\ Call("block_flow.assign_block_size")
    /\ \E size \in BlockSizes, floats \in FloatConfigs :
          block_flow' = [block_flow EXCEPT !.position_size_block = size,
                                           !.floats = floats]
    /\ locals' = NoLocals
    /\ UNCHANGED marker_fragments

AssignMarkerInlineSizes ==
    /\ Call("assign_marker_inline_sizes")
    /\ LET r == assign_marker_inline_sizes(block_flow, marker_fragments)
       IN  /\ marker_fragments' = r.markers
           /\ locals' = r.locals
    /\ UNCHANGED block_flow

AssignMarkerBlockSizes ==
    /\ Call("assign_marker_block_sizes")
    /\ marker_fragments' = assign_marker_block_sizes(block_flow, marker_fragments)
    /\ locals' = NoLocals
    /\ UNCHANGED block_flow

BuildDisplayList ==
    /\ Enter("build_display_list")
    /\ \E n \in 0..MaxBlockItems :
          display_list' = build_display_list(marker_fragments, n)
    /\ visited' = << >>
    /\ UNCHANGED <<block_flow, marker_fragments, content>>

IterateThroughFragmentBorderBoxes ==
    /\ Enter("iterate_through_fragment_border_boxes")
    /\ \E accept \in SUBSET ({<<"block", 0>>}
                              \cup {<<"marker", k>> : k \in 1..Len(marker_fragments)}) :
          visited' = iterate_through_fragment_border_boxes(marker_fragments, accept)
    /\ display_list' = << >>
    /\ UNCHANGED <<block_flow, marker_fragments, content>>

MutateFragments ==
    /\ Enter("mutate_fragments")
    /\ visited' = mutate_fragments(marker_fragments)
    /\ display_list' = << >>
    /\ UNCHANGED <<block_flow, marker_fragments, content>>

Delegated ==
    /\ \E name \in DelegatedOps : Enter(name)
    /\ display_list' = << >>
    /\ visited' = << >>
    /\ UNCHANGED <<block_flow, marker_fragments, content>>

\* The flow constructor's caller classifies the style of the next marker.
Classify ==
    /\ Len(content) < Len(marker_fragments)
    /\ content' = Append(content,
                         from_list_style_type(marker_fragments[Len(content) + 1].list_style_type))
    /\ UNCHANGED <<block_flow, marker_fragments, op, calls, locals, display_list, visited>>

Next ==
    \/ BubbleInlineSizes
    \/ AssignInlineSizes
    \/ BlockFlowAssignBlockSize
    \/ AssignMarkerInlineSizes
    \/ AssignMarkerBlockSizes
    \/ BuildDisplayList
    \/ IterateThroughFragmentBorderBoxes
    \/ MutateFragments
    \/ Delegated

NextClassify == Classify

Spec == Init /\ [][Next]_vars

SpecStyle == InitStyle /\ [][Next]_vars

SpecClassify == InitClassify /\ [][NextClassify]_vars

(***************************************************************************)
(* Properties                                                              *)
(***************************************************************************)
StaticGlyphTypes == {"disc", "circle", "square", "disclosure-open", "disclosure-closed"}

NumMarkers == Len(marker_fragments)

\* assign_marker_inline_sizes has just returned.
InlinePlaced == op = "assign_block_size" /\ locals.live

\* assign_block_size has just returned.
BlockSizeAssigned == op = "assign_block_size" /\ Len(calls) = 3

\* Each marker's inline-end edge is the inline-start edge of the next stored one.
MarkersAbut ==
    \A k \in 1..(NumMarkers - 1) :
        marker_fragments[k].start_i + marker_fragments[k].size_inline
            = marker_fragments[k + 1].start_i

\* C1 as stated: when the float query returns [x0, x0+w], the rightmost (last
\* stored) marker ends at x0+w, the markers abut, and the final cursor is
\* x0+w minus the sum of the markers' preferred inline sizes.
C1_Original ==
    (InlinePlaced /\ locals.available_rect.some) =>
        LET x0 == locals.available_rect.start_i
            w == locals.available_rect.size_inline
        IN  /\ NumMarkers > 0 =>
                  marker_fragments[NumMarkers].start_i
                      + marker_fragments[NumMarkers].size_inline = x0 + w
            /\ MarkersAbut
            /\ locals.marker_inline_start = x0 + w - SumPreferred(marker_fragments, 1)

\* C1 amended: when the float query returns [x0, x0+w], the rightmost (last
\* stored) marker ends at x0, the inline-start edge of the rectangle, the
\* markers abut, and the final cursor is x0 minus the sum of the markers'
\* preferred inline sizes.
C1_Amended ==
    (InlinePlaced /\ locals.available_rect.some) =>
        LET x0 == locals.available_rect.start_i
        IN  /\ NumMarkers > 0 =>
                  marker_fragments[NumMarkers].start_i
                      + marker_fragments[NumMarkers].size_inline = x0
            /\ MarkersAbut
            /\ locals.marker_inline_start = x0 - SumPreferred(marker_fragments, 1)

C1_Witness ==
    /\ InlinePlaced
    /\ locals.available_rect.some
    /\ locals.available_rect.size_inline > 0
    /\ NumMarkers >= 2

\* C2: from_list_style_type never fails; none gives None, each of the five
\* glyph keywords gives StaticText with that keyword's glyph, every other
\* keyword gives GeneratedContent(ListItem).
C2_Classifier ==
    \A k \in 1..Len(content) :
        LET t == marker_fragments[k].list_style_type
            c == content[k]
        IN  /\ c.arg # "panic"
            /\ t = "none" => c.kind = "None"
            /\ t \in StaticGlyphTypes =>
                  c.kind = "StaticText" /\ c.arg = static_representation(t)
            /\ t \notin StaticGlyphTypes \cup {"none"} =>
                  c.kind = "GeneratedContent" /\ c.arg = "ListItem"

C2_Witness ==
    /\ Len(content) >= 2
    /\ marker_fragments[1].list_style_type = "none"
    /\ marker_fragments[2].list_style_type = "disclosure-closed"
    /\ content[2].arg = "U+2023"

\* C3: the constructor raises RESOLVE_GENERATED_CONTENT exactly when there is
\* a first marker whose list-style-type is neither none nor a glyph keyword,
\* whatever the later markers are, and no operation changes the flag afterwards.
C3_DamageFlag ==
    /\ [](op = "from_fragments_and_flotation" =>
            ("RESOLVE_GENERATED_CONTENT" \in block_flow.restyle_damage
                <=> /\ NumMarkers > 0
                    /\ marker_fragments[1].list_style_type
                           \notin StaticGlyphTypes \cup {"none"}))
    /\ [][block_flow'.restyle_damage = block_flow.restyle_damage]_vars

C3_Witness ==
    /\ op = "repair_style"
    /\ NumMarkers >= 2
    /\ marker_fragments[1].list_style_type = "square"
    /\ marker_fragments[2].list_style_type = "decimal"
    /\ block_flow.restyle_damage = {}

\* C4: the flow's intrinsic inline-size is what the block flow alone bubbles
\* up, whatever the markers are and whichever layout operations have run, and
\* bubble_inline_sizes leaves the markers unchanged.
C4_MarkersDoNotWiden ==
    /\ [](/\ block_flow.intrinsic_inline_sizes \in {0, block_flow.content_inline_size}
          /\ op = "bubble_inline_sizes" =>
                block_flow.intrinsic_inline_sizes
                    = block_flow_bubble_inline_sizes(block_flow).intrinsic_inline_sizes)
    /\ [][op' = "bubble_inline_sizes" => marker_fragments' = marker_fragments]_vars

C4_Witness ==
    /\ op = "bubble_inline_sizes"
    /\ NumMarkers >= 1
    /\ \A k \in 1..NumMarkers : marker_fragments[k].size_inline > 0
    /\ block_flow.intrinsic_inline_sizes = block_flow.content_inline_size

\* The calls of the given kinds that the visitor received for markers, in order.
MarkerCalls(kinds) ==
    SelectSeq(visited, LAMBDA e : e.call \in kinds /\ e.fragment[1] = "marker")

\* The markers come after every fragment of the block.
MarkersAfterBlock ==
    \A a \in 1..Len(visited) : \A b \in 1..Len(visited) :
        (a < b /\ visited[a].fragment[1] = "marker") => visited[b].fragment[1] = "marker"

\* C5 as stated: both operations visit (process / mutate) every marker exactly
\* once, after the fragments of the block.
C5_Original ==
    op \in {"iterate_through_fragment_border_boxes", "mutate_fragments"} =>
        /\ MarkersAfterBlock
        /\ Len(MarkerCalls({"process", "mutator"})) = NumMarkers
        /\ \A k \in 1..NumMarkers :
              MarkerCalls({"process", "mutator"})[k].fragment = <<"marker", k>>

\* C5 amended: mutate_fragments applies the mutator to every marker exactly
\* once; iterate_through_fragment_border_boxes offers every marker exactly once
\* to should_process and processes, exactly once, each marker for which it
\* answered true and no other; both after the fragments of the block.
C5_Amended ==
    /\ op = "mutate_fragments" =>
        /\ MarkersAfterBlock
        /\ Len(MarkerCalls({"mutator"})) = NumMarkers
        /\ \A k \in 1..NumMarkers :
              MarkerCalls({"mutator"})[k].fragment = <<"marker", k>>
    /\ op = "iterate_through_fragment_border_boxes" =>
        /\ MarkersAfterBlock
        /\ Len(MarkerCalls({"should_process"})) = NumMarkers
        /\ \A k \in 1..NumMarkers :
              /\ MarkerCalls({"should_process"})[k].fragment = <<"marker", k>>
              /\ Cardinality({j \in 1..Len(visited) :
                                 /\ visited[j].call = "process"
                                 /\ visited[j].fragment = <<"marker", k>>})
                    = IF MarkerCalls({"should_process"})[k].result THEN 1 ELSE 0

C5_Witness ==
    /\ op = "iterate_through_fragment_border_boxes"
    /\ NumMarkers >= 2
    /\ Len(MarkerCalls({"process"})) = 1
    /\ MarkerCalls({"process"})[1].fragment = <<"marker", 2>>

\* A step in which callee returns to assign_block_size.
Returns(callee) ==
    /\ op' = "assign_block_size"
    /\ calls' # calls
    /\ calls'[Len(calls')] = callee

\* C6: in every assign_block_size the block is sized before the markers are
\* positioned inline, and that before they are positioned in the block
\* direction; no other step moves a marker.
C6_Ordering ==
    [][/\ Returns("assign_marker_inline_sizes") =>
            op = "assign_block_size" /\ calls = <<"block_flow.assign_block_size">>
       /\ Returns("assign_marker_block_sizes") =>
            /\ op = "assign_block_size"
            /\ calls = <<"block_flow.assign_block_size", "assign_marker_inline_sizes">>
       /\ marker_fragments' # marker_fragments =>
            \/ Returns("assign_marker_inline_sizes")
            \/ Returns("assign_marker_block_sizes")]_vars

C6_Witness ==
    /\ op = "assign_block_size"
    /\ calls = <<"block_flow.assign_block_size", "assign_marker_inline_sizes",
                 "assign_marker_block_sizes">>
    /\ NumMarkers >= 1
    /\ marker_fragments[1].size_inline > 0

\* C7: after block positioning every marker's block-start plus its aligned
\* ascent is the shared space above the baseline, hence equal for all markers.
C7_SharedBaseline ==
    BlockSizeAssigned =>
        LET lm == minimum_line_metrics_for_fragments(marker_fragments, block_flow.font_ascent)
        IN  /\ \A k \in 1..NumMarkers :
                  marker_fragments[k].start_b
                      + aligned_inline_metrics(marker_fragments[k], lm).ascent
                    = lm.space_above_baseline
            /\ \A j \in 1..NumMarkers : \A k \in 1..NumMarkers :
                  marker_fragments[j].start_b + marker_fragments[j].ascent
                    = marker_fragments[k].start_b + marker_fragments[k].ascent

C7_Witness ==
    /\ BlockSizeAssigned
    /\ NumMarkers >= 2
    /\ marker_fragments[1].ascent # marker_fragments[2].ascent
    /\ marker_fragments[1].start_b # marker_fragments[2].start_b

\* C8: build_display_list emits one item per marker, in stored order, before
\* every item of the block; without markers only the block's items.
C8_MarkersPaintedFirst ==
    op = "build_display_list" =>
        /\ Len(display_list) >= NumMarkers
        /\ \A k \in 1..Len(display_list) :
              IF k <= NumMarkers THEN display_list[k] = <<"marker", k>>
              ELSE display_list[k][1] = "block"

C8_Witness ==
    /\ op = "build_display_list"
    /\ NumMarkers >= 2
    /\ Len(display_list) > NumMarkers

\* C9: the cursor starts at the inline-start edge of the free rectangle, or of
\* the block's border box when there is none; the marker at stored index i
\* gets its preferred inline size and starts at the starting cursor minus the
\* sizes of the markers at indices i..N.
C9_ReverseStacking ==
    InlinePlaced =>
        LET start == IF locals.available_rect.some
                     THEN locals.available_rect.start_i
                     ELSE block_flow.border_box_start_i
        IN  \A i \in 1..NumMarkers :
                /\ marker_fragments[i].size_inline = marker_fragments[i].preferred_inline_size
                /\ marker_fragments[i].start_i = start - SumPreferred(marker_fragments, i)

C9_Witness ==
    /\ InlinePlaced
    /\ ~locals.available_rect.some
    /\ block_flow.border_box_start_i > 0
    /\ NumMarkers >= 2
    /\ marker_fragments[1].preferred_inline_size # marker_fragments[2].preferred_inline_size

\* C10 as stated: the band queried starts one block-size above the start and
\* is two block-sizes high.
C10_Original ==
    InlinePlaced =>
        locals.query = << 0 - block_flow.position_size_block,
                          2 * block_flow.position_size_block,
                          block_flow.block_container_inline_size >>

\* C10 amended: the band queried starts one block-size (base.position.size.block)
\* above the start and is one block-size high, so it ends at the start; the
\* width argument is the block's container inline-size.
C10_Amended ==
    InlinePlaced =>
        locals.query = << 0 - block_flow.position_size_block,
                          block_flow.position_size_block,
                          block_flow.block_container_inline_size >>

C10_Witness ==
    /\ InlinePlaced
    /\ block_flow.position_size_block = 2
    /\ block_flow.block_container_inline_size > 0
    /\ locals.available_rect.some

====
